---------------------------- MODULE Spec2Model ----------------------------
(***************************************************************************)
(* A model of the aerograph fluid solver (class FluidSolver) and of the    *)
(* handlers of App.tsx that drive it.                                      *)
(*                                                                         *)
(* Numbers.  The solver stores its fields in Float32Array buffers and      *)
(* computes in IEEE doubles.  The model keeps every number as a fixed-      *)
(* point value: the integer v stands for the real v / Scale, a sum is      *)
(* exact, and a product or a quotient is rounded to the nearest multiple   *)
(* of 1 / Scale (ties to even), as an IEEE operation rounds to the nearest *)
(* representable value.  Non-finite values (Infinity, NaN) are outside the *)
(* number model.                                                           *)
(*                                                                         *)
(* Sequencing.  The program computes a value once and then uses it.  The   *)
(* model writes "e with v the value of expr" as The({ e : v \in {expr} }), *)
(* so that every intermediate buffer state and every operand is computed   *)
(* once, in program order.                                                 *)
(***************************************************************************)
EXTENDS Integers, Sequences, FiniteSets, TLC

\* The element of a one-element set.
The(S) == CHOOSE r \in S : TRUE

(***************************************************************************)
(* Fixed-point arithmetic                                                  *)
(***************************************************************************)
Scale == 1024

One == Scale

Half == Scale \div 2

Max(a, b) == IF a >= b THEN a ELSE b

Min(a, b) == IF a <= b THEN a ELSE b

Abs(a) == IF a < 0 THEN -a ELSE a

\* n / d rounded to the nearest integer, ties to the even one (d > 0).
RoundPos(n, d) ==
  LET q == n \div d
      r == n % d
  IN  IF 2 * r < d THEN q
      ELSE IF 2 * r > d THEN q + 1
      ELSE IF q % 2 = 0 THEN q ELSE q + 1

RoundDiv(n, d) ==
  The({ IF d > 0 THEN RoundPos(u, d) ELSE RoundPos(-u, -d) : u \in {n} })

\* a * b of two fixed-point values; the split keeps the intermediate
\* product inside 32-bit integers and rounds exactly once.
Mul(a, b) ==
  The({ (u \div Scale) * v + RoundPos((u % Scale) * v, Scale) :
          u \in {a}, v \in {b} })

\* a / b of two fixed-point values.
Div(a, b) == RoundDiv(a * Scale, b)

(***************************************************************************)
(* Buffers.  The six Float32Array fields of a solver are kept in one       *)
(* store, indexed by the field's name, so that a routine which is handed   *)
(* the same buffer twice reads what it has just written, as the code does. *)
(***************************************************************************)
BufNames == {"s", "density", "Vx", "Vy", "Vx0", "Vy0"}

arraySize(N) == (N + 2) * (N + 2)

ZeroArray(N) == [k \in 0 .. arraySize(N) - 1 |-> 0]

\* IX with the lower clamp, Math.max(0, ...), left out.
IXNoLowClamp(N, x, y) == Min(x, N + 1) + (N + 2) * Min(y, N + 1)

\* Coordinate flattening, with the clamp of both coordinates.
IX(N, x, y) ==
  LET cx == Max(0, Min(x, N + 1))
      cy == Max(0, Min(y, N + 1))
  IN  cx + (N + 2) * cy

Get(m, name, N, x, y) == m[name][IX(N, x, y)]

Put(m, name, N, x, y, v) == [m EXCEPT ![name][IX(N, x, y)] = v]

(***************************************************************************)
(* set_bnd(b, x): the i-loop sets the bottom and top ghost cells, the      *)
(* j-loop the left and right ones, each from the adjacent interior cell,   *)
(* negated on the walls the component b is normal to; then the four        *)
(* corners, one after the other.                                           *)
(***************************************************************************)
\* The ternaries with b === 1 and b === 2 exchanged.
ReflectSwapped(b, axis, v) == IF b = 3 - axis THEN -v ELSE v

\* b === axis ? -v : v
Reflect(b, axis, v) == IF b = axis THEN -v ELSE v

RECURSIVE BndRows(_, _, _, _, _)
BndRows(m, N, b, x, i) ==
  IF i > N THEN m
  ELSE The({ BndRows(m2, N, b, x, i + 1) :
               m2 \in { Put(m1, x, N, i, N + 1, Reflect(b, 2, Get(m1, x, N, i, N))) :
                          m1 \in { Put(m, x, N, i, 0,
                                       Reflect(b, 2, Get(m, x, N, i, 1))) } } })

RECURSIVE BndCols(_, _, _, _, _)
BndCols(m, N, b, x, j) ==
  IF j > N THEN m
  ELSE The({ BndCols(m2, N, b, x, j + 1) :
               m2 \in { Put(m1, x, N, N + 1, j, Reflect(b, 1, Get(m1, x, N, N, j))) :
                          m1 \in { Put(m, x, N, 0, j,
                                       Reflect(b, 1, Get(m, x, N, 1, j))) } } })

\* 0.5 * (u + v)
Avg(u, v) == RoundDiv(u + v, 2)

BndCorners(m, N, x) ==
  The({ Put(m3, x, N, N + 1, N + 1,
            Avg(Get(m3, x, N, N, N + 1), Get(m3, x, N, N + 1, N))) :
        m3 \in { Put(m2, x, N, N + 1, 0,
                     Avg(Get(m2, x, N, N, 0), Get(m2, x, N, N + 1, 1))) :
        m2 \in { Put(m1, x, N, 0, N + 1,
                     Avg(Get(m1, x, N, 1, N + 1), Get(m1, x, N, 0, N))) :
        m1 \in { Put(m, x, N, 0, 0,
                     Avg(Get(m, x, N, 1, 0), Get(m, x, N, 0, 1))) } } } })

set_bnd(m, N, b, x) ==
  The({ BndCorners(m2, N, x) :
        m2 \in { BndCols(m1, N, b, x, 1) :
        m1 \in { BndRows(m, N, b, x, 1) } } })

(***************************************************************************)
(* lin_solve: iter Gauss-Seidel sweeps over the interior, each followed by *)
(* set_bnd.  a and c are fixed-point values.  Each interior loop           *)
(* "for j = 1..N, for i = 1..N" is written as two definitions: the inner   *)
(* loop from cell i of row j on, and the outer loop from row j on.         *)
(***************************************************************************)
SweepCell(m, N, x, x0, a, cRecip, i, j) ==
  Put(m, x, N, i, j,
      Mul(Get(m, x0, N, i, j)
            + Mul(a, Get(m, x, N, i + 1, j) + Get(m, x, N, i - 1, j)
                       + Get(m, x, N, i, j + 1) + Get(m, x, N, i, j - 1)),
          cRecip))

RECURSIVE SweepRow(_, _, _, _, _, _, _, _)
SweepRow(m, N, x, x0, a, cRecip, i, j) ==
  IF i > N THEN m
  ELSE The({ SweepRow(m1, N, x, x0, a, cRecip, i + 1, j) :
               m1 \in { SweepCell(m, N, x, x0, a, cRecip, i, j) } })

RECURSIVE SweepRows(_, _, _, _, _, _, _)
SweepRows(m, N, x, x0, a, cRecip, j) ==
  IF j > N THEN m
  ELSE The({ SweepRows(m1, N, x, x0, a, cRecip, j + 1) :
               m1 \in { SweepRow(m, N, x, x0, a, cRecip, 1, j) } })

\* The loop "for k = 0 .. iter - 1" with iter sweeps still to run.
RECURSIVE SolveIters(_, _, _, _, _, _, _, _)
SolveIters(m, N, b, x, x0, a, cRecip, iter) ==
  IF iter <= 0 THEN m
  ELSE The({ SolveIters(m2, N, b, x, x0, a, cRecip, iter - 1) :
               m2 \in { set_bnd(m1, N, b, x) :
               m1 \in { SweepRows(m, N, x, x0, a, cRecip, 1) } } })

\* lin_solve with its loop started at k = 1: one sweep fewer than asked.
lin_solveShort(m, N, b, x, x0, a, c, iter) ==
  The({ SolveIters(m, N, b, x, x0, a, cRecip, iter - 1) :
          cRecip \in { Div(One, c) } })

lin_solve(m, N, b, x, x0, a, c, iter) ==
  The({ SolveIters(m, N, b, x, x0, a, cRecip, iter) :
          cRecip \in { Div(One, c) } })

diffuse(m, N, b, x, x0, diff, dt, iter) ==
  The({ lin_solve(m, N, b, x, x0, a, One + 6 * a, iter) :
          a \in { Mul(dt, diff) * (N - 2) * (N - 2) } })

(***************************************************************************)
(* project(velocX, velocY, p, div, iter)                                   *)
(***************************************************************************)
\* -0.5 * (velocX[i+1,j] - velocX[i-1,j] + velocY[i,j+1] - velocY[i,j-1]) / N
Divergence(m, N, velocX, velocY, i, j) ==
  RoundDiv(RoundDiv(-(Get(m, velocX, N, i + 1, j) - Get(m, velocX, N, i - 1, j)
                      + Get(m, velocY, N, i, j + 1) - Get(m, velocY, N, i, j - 1)),
                    2),
           N)

\* project's first loop with the pressure started at 1 instead of 0.
ProjectDivCellOne(m, N, velocX, velocY, p, div, i, j) ==
  The({ Put(m1, p, N, i, j, One) :
          m1 \in { Put(m, div, N, i, j, Divergence(m, N, velocX, velocY, i, j)) } })

ProjectDivCell(m, N, velocX, velocY, p, div, i, j) ==
  The({ Put(m1, p, N, i, j, 0) :
          m1 \in { Put(m, div, N, i, j, Divergence(m, N, velocX, velocY, i, j)) } })

RECURSIVE ProjectDivRow(_, _, _, _, _, _, _, _)
ProjectDivRow(m, N, velocX, velocY, p, div, i, j) ==
  IF i > N THEN m
  ELSE The({ ProjectDivRow(m1, N, velocX, velocY, p, div, i + 1, j) :
               m1 \in { ProjectDivCell(m, N, velocX, velocY, p, div, i, j) } })

RECURSIVE ProjectDivRows(_, _, _, _, _, _, _)
ProjectDivRows(m, N, velocX, velocY, p, div, j) ==
  IF j > N THEN m
  ELSE The({ ProjectDivRows(m1, N, velocX, velocY, p, div, j + 1) :
               m1 \in { ProjectDivRow(m, N, velocX, velocY, p, div, 1, j) } })

\* project's last loop adding the pressure gradient instead of subtracting.
ProjectSubCellAdd(m, N, velocX, velocY, p, i, j) ==
  The({ Put(m1, velocY, N, i, j,
            Get(m1, velocY, N, i, j)
            + Mul(N * Half, Get(m1, p, N, i, j + 1) - Get(m1, p, N, i, j - 1))) :
        m1 \in { Put(m, velocX, N, i, j,
                     Get(m, velocX, N, i, j)
                     + Mul(N * Half,
                           Get(m, p, N, i + 1, j) - Get(m, p, N, i - 1, j))) } })

ProjectSubCell(m, N, velocX, velocY, p, i, j) ==
  The({ Put(m1, velocY, N, i, j,
            Get(m1, velocY, N, i, j)
            - Mul(N * Half, Get(m1, p, N, i, j + 1) - Get(m1, p, N, i, j - 1))) :
        m1 \in { Put(m, velocX, N, i, j,
                     Get(m, velocX, N, i, j)
                     - Mul(N * Half,
                           Get(m, p, N, i + 1, j) - Get(m, p, N, i - 1, j))) } })

RECURSIVE ProjectSubRow(_, _, _, _, _, _, _)
ProjectSubRow(m, N, velocX, velocY, p, i, j) ==
  IF i > N THEN m
  ELSE The({ ProjectSubRow(m1, N, velocX, velocY, p, i + 1, j) :
               m1 \in { ProjectSubCell(m, N, velocX, velocY, p, i, j) } })

RECURSIVE ProjectSubRows(_, _, _, _, _, _)
ProjectSubRows(m, N, velocX, velocY, p, j) ==
  IF j > N THEN m
  ELSE The({ ProjectSubRows(m1, N, velocX, velocY, p, j + 1) :
               m1 \in { ProjectSubRow(m, N, velocX, velocY, p, 1, j) } })

\* The statements of project, last to first: the store each one leaves is
\* the store the next one starts from.
\* project without the two set_bnd calls that close it.
projectNoBnd(m, N, velocX, velocY, p, div, iter) ==
  The({ ProjectSubRows(m4, N, velocX, velocY, p, 1) :
        m4 \in { lin_solve(m3, N, 0, p, div, One, 6 * One, iter) :
        m3 \in { set_bnd(m2, N, 0, p) :
        m2 \in { set_bnd(m1, N, 0, div) :
        m1 \in { ProjectDivRows(m, N, velocX, velocY, p, div, 1) } } } } })

project(m, N, velocX, velocY, p, div, iter) ==
  The({ set_bnd(m6, N, 2, velocY) :
        m6 \in { set_bnd(m5, N, 1, velocX) :
        m5 \in { ProjectSubRows(m4, N, velocX, velocY, p, 1) :
        m4 \in { lin_solve(m3, N, 0, p, div, One, 6 * One, iter) :
        m3 \in { set_bnd(m2, N, 0, p) :
        m2 \in { set_bnd(m1, N, 0, div) :
        m1 \in { ProjectDivRows(m, N, velocX, velocY, p, div, 1) } } } } } } })

(***************************************************************************)
(* advect(b, d, d0, velocX, velocY, dt)                                    *)
(***************************************************************************)
\* The backtraced coordinate pos - dt0 * vel, clamped into [0.5, N + 0.5].
Backtrace(N, pos, dt0, vel) ==
  The({ IF x < Half THEN Half
        ELSE IF x > N * One + Half THEN N * One + Half
        ELSE x : x \in { pos * One - Mul(dt0, vel) } })

\* The bilinear interpolation of d0 at the backtraced point (x, y).
Interpolate(m, N, d0, x, y) ==
  LET i0 == x \div One
      i1 == i0 + 1
      j0 == y \div One
      j1 == j0 + 1
      s1 == x - i0 * One
      s0 == One - s1
      t1 == y - j0 * One
      t0 == One - t1
  IN  Mul(s0, Mul(t0, Get(m, d0, N, i0, j0)) + Mul(t1, Get(m, d0, N, i0, j1)))
      + Mul(s1, Mul(t0, Get(m, d0, N, i1, j0)) + Mul(t1, Get(m, d0, N, i1, j1)))

AdvectCell(m, N, d, d0, velocX, velocY, dt0, i, j) ==
  The({ Put(m, d, N, i, j, Interpolate(m, N, d0, x, y)) :
          x \in { Backtrace(N, i, dt0, Get(m, velocX, N, i, j)) },
          y \in { Backtrace(N, j, dt0, Get(m, velocY, N, i, j)) } })

RECURSIVE AdvectRow(_, _, _, _, _, _, _, _, _)
AdvectRow(m, N, d, d0, velocX, velocY, dt0, i, j) ==
  IF i > N THEN m
  ELSE The({ AdvectRow(m1, N, d, d0, velocX, velocY, dt0, i + 1, j) :
               m1 \in { AdvectCell(m, N, d, d0, velocX, velocY, dt0, i, j) } })

RECURSIVE AdvectRows(_, _, _, _, _, _, _, _)
AdvectRows(m, N, d, d0, velocX, velocY, dt0, j) ==
  IF j > N THEN m
  ELSE The({ AdvectRows(m1, N, d, d0, velocX, velocY, dt0, j + 1) :
               m1 \in { AdvectRow(m, N, d, d0, velocX, velocY, dt0, 1, j) } })

\* advect sampling the buffer it writes instead of its work buffer d0.
advectInPlace(m, N, b, d, d0, velocX, velocY, dt) ==
  The({ set_bnd(m1, N, b, d) :
          m1 \in { AdvectRows(m, N, d, d, velocX, velocY, dt * (N - 2), 1) } })

advect(m, N, b, d, d0, velocX, velocY, dt) ==
  The({ set_bnd(m1, N, b, d) :
          m1 \in { AdvectRows(m, N, d, d0, velocX, velocY, dt * (N - 2), 1) } })

\* The dissipation with the factor 1 + fadeRate in place of 1 - fadeRate.
DissipateGrow(m, fadeRate) ==
  IF fadeRate > 0
    THEN [m EXCEPT !["density"] =
            [k \in DOMAIN @ |-> Max(0, Mul(@[k], One + fadeRate))]]
    ELSE m

\* Natural dissipation: every cell of density, ghost cells included.
Dissipate(m, fadeRate) ==
  IF fadeRate > 0
    THEN [m EXCEPT !["density"] =
            [k \in DOMAIN @ |-> Max(0, Mul(@[k], One - fadeRate))]]
    ELSE m

(***************************************************************************)
(* The solver's public operations on the store                             *)
(***************************************************************************)
addDensity(m, N, x, y, amount) ==
  [m EXCEPT !["density"][IX(N, x, y)] = @ + amount]

\* addVelocity adding amountX to both components.
addVelocitySameAmount(m, N, x, y, amountX, amountY) ==
  [m EXCEPT !["Vx"][IX(N, x, y)] = @ + amountX,
            !["Vy"][IX(N, x, y)] = @ + amountX]

addVelocity(m, N, x, y, amountX, amountY) ==
  [m EXCEPT !["Vx"][IX(N, x, y)] = @ + amountX,
            !["Vy"][IX(N, x, y)] = @ + amountY]

\* The eraser branch of handleMove: solver.density[solver.IX(x, y)] = 0.
eraseDensity(m, N, x, y) == [m EXCEPT !["density"][IX(N, x, y)] = 0]

\* handleReset: the buffers it fills with 0.
ResetBuffers == {"density", "Vx", "Vy", "Vx0", "Vy0"}

handleReset(m, N) ==
  [n \in BufNames |-> IF n \in ResetBuffers THEN ZeroArray(N) ELSE m[n]]

(***************************************************************************)
(* step(iter, fadeRate): its statements, in program order.  A position is  *)
(* the statement about to run; "idle" is outside step.                     *)
(***************************************************************************)
\* What one statement of step does to the store.
RunStage(m, N, st, visc, diff, dt, iter, fadeRate) ==
  CASE st = "diffuseVx"      -> diffuse(m, N, 1, "Vx0", "Vx", visc, dt, iter)
    [] st = "diffuseVy"      -> diffuse(m, N, 2, "Vy0", "Vy", visc, dt, iter)
    [] st = "project1"       -> project(m, N, "Vx0", "Vy0", "Vx", "Vy", iter)
    [] st = "advectVx"       -> advect(m, N, 1, "Vx", "Vx0", "Vx0", "Vy0", dt)
    [] st = "advectVy"       -> advect(m, N, 2, "Vy", "Vy0", "Vx0", "Vy0", dt)
    [] st = "project2"       -> project(m, N, "Vx", "Vy", "Vx0", "Vy0", iter)
    [] st = "diffuseDensity" -> diffuse(m, N, 0, "s", "density", diff, dt, iter)
    [] st = "advectDensity"  -> advect(m, N, 0, "density", "s", "Vx", "Vy", dt)
    [] st = "dissipate"      -> Dissipate(m, fadeRate)

\* step with the first projection moved after the velocity advection.
NextStageSwapped(st, fadeRate) ==
  CASE st = "diffuseVx"      -> "diffuseVy"
    [] st = "diffuseVy"      -> "advectVx"
    [] st = "advectVx"       -> "advectVy"
    [] st = "advectVy"       -> "project1"
    [] st = "project1"       -> "project2"
    [] st = "project2"       -> "diffuseDensity"
    [] st = "diffuseDensity" -> "advectDensity"
    [] st = "advectDensity"  -> IF fadeRate > 0 THEN "dissipate" ELSE "idle"
    [] st = "dissipate"      -> "idle"

\* The position after statement st: the next statement, the dissipation
\* loop only under its guard, and the return after the last one.
NextStage(st, fadeRate) ==
  CASE st = "diffuseVx"      -> "diffuseVy"
    [] st = "diffuseVy"      -> "project1"
    [] st = "project1"       -> "advectVx"
    [] st = "advectVx"       -> "advectVy"
    [] st = "advectVy"       -> "project2"
    [] st = "project2"       -> "diffuseDensity"
    [] st = "diffuseDensity" -> "advectDensity"
    [] st = "advectDensity"  -> IF fadeRate > 0 THEN "dissipate" ELSE "idle"
    [] st = "dissipate"      -> "idle"

(***************************************************************************)
(* State                                                                   *)
(***************************************************************************)
VARIABLES
  solver,    \* App's solver state: "null" before the effect ran, then "live"
  size,      \* this.size
  dt,        \* this.dt
  diff,      \* this.diff
  visc,      \* this.visc
  buf,       \* the six buffers, by name
  pc,        \* position inside step, or "idle"
  iter,      \* step's argument iter
  fadeRate,  \* step's argument fadeRate
  trace,     \* the statements of the current (or last) step that have run
  pre,       \* the buffers as they were when the current (or last) step began
  last,      \* the last call made on the solver, with its arguments
  nOps,      \* how many calls have been made on the solver
  seen       \* the kinds of call made on the solver so far

vars == << solver, size, dt, diff, visc, buf, pc, iter, fadeRate, trace, pre,
           last, nOps, seen >>

(***************************************************************************)
(* Bounds and input sets                                                   *)
(***************************************************************************)
\* Calls made on one solver (injections, resets and steps).
MaxOps == 3

\* Largest iteration count handed to step.
MaxIter == 2

\* Construction parameters (size, diffusion, viscosity, dt); the last two
\* are configurations the written specification calls invalid.
Configs ==
  { << 4, 0, 0, Half >>, << 3, One, Half, Half >>, << 3, 0, Half, Half >>,
    << 0, 0, 0, Half >>, << 3, -One, 0, Half >> }

\* Coordinates handed to the injection calls: inside the grid, next to a
\* wall, and out of range on either side.
Points == { << 2, 2 >>, << 1, 1 >>, << -3, 9 >> }

Amounts == { 100 * One }

Deltas == { << 10 * One, -Half >> }

FadeRates == { 0, Half, One }

NoCall == [op |-> "none", x |-> 0, y |-> 0, a |-> 0, b |-> 0]

(***************************************************************************)
(* Actions                                                                 *)
(***************************************************************************)
Init ==
  /\ solver = "null"
  /\ size = 0 /\ dt = 0 /\ diff = 0 /\ visc = 0
  /\ buf = [n \in BufNames |-> << >>]
  /\ pc = "idle"
  /\ iter = 0 /\ fadeRate = 0
  /\ trace = << >>
  /\ pre = [n \in BufNames |-> << >>]
  /\ last = NoCall
  /\ nOps = 0 /\ seen = {}

\* new FluidSolver(size, diffusion, viscosity, dt), then setSolver.
Construct(N, diffusion, viscosity, step) ==
  /\ solver = "null"
  /\ solver' = "live"
  /\ size' = N /\ dt' = step /\ diff' = diffusion /\ visc' = viscosity
  /\ buf' = [n \in BufNames |-> ZeroArray(N)]
  /\ pre' = [n \in BufNames |-> ZeroArray(N)]
  /\ last' = [NoCall EXCEPT !.op = "new"]
  /\ UNCHANGED << pc, iter, fadeRate, trace, nOps, seen >>

Idle == solver = "live" /\ pc = "idle"

AddDensity(x, y, amount) ==
  /\ Idle /\ nOps < MaxOps
  /\ buf' = addDensity(buf, size, x, y, amount)
  /\ last' = [op |-> "addDensity", x |-> x, y |-> y, a |-> amount, b |-> 0]
  /\ nOps' = nOps + 1 /\ seen' = seen \cup {last'.op}
  /\ UNCHANGED << solver, size, dt, diff, visc, pc, iter, fadeRate, trace, pre >>

AddVelocity(x, y, amountX, amountY) ==
  /\ Idle /\ nOps < MaxOps
  /\ buf' = addVelocity(buf, size, x, y, amountX, amountY)
  /\ last' = [op |-> "addVelocity", x |-> x, y |-> y, a |-> amountX, b |-> amountY]
  /\ nOps' = nOps + 1 /\ seen' = seen \cup {last'.op}
  /\ UNCHANGED << solver, size, dt, diff, visc, pc, iter, fadeRate, trace, pre >>

\* The eraser acts only on targets inside the grid (handleMove's test).
Erase(x, y) ==
  /\ Idle /\ nOps < MaxOps
  /\ x > 0 /\ x <= size /\ y > 0 /\ y <= size
  /\ buf' = eraseDensity(buf, size, x, y)
  /\ last' = [op |-> "erase", x |-> x, y |-> y, a |-> 0, b |-> 0]
  /\ nOps' = nOps + 1 /\ seen' = seen \cup {last'.op}
  /\ UNCHANGED << solver, size, dt, diff, visc, pc, iter, fadeRate, trace, pre >>

Reset ==
  /\ Idle /\ nOps < MaxOps
  /\ buf' = handleReset(buf, size)
  /\ last' = [NoCall EXCEPT !.op = "reset"]
  /\ nOps' = nOps + 1 /\ seen' = seen \cup {last'.op}
  /\ UNCHANGED << solver, size, dt, diff, visc, pc, iter, fadeRate, trace, pre >>

\* The call of step: its arguments are bound and its first statement is next.
StepCall(it, fr) ==
  /\ Idle /\ nOps < MaxOps
  /\ pc' = "diffuseVx"
  /\ iter' = it /\ fadeRate' = fr
  /\ trace' = << >>
  /\ pre' = buf
  /\ last' = [op |-> "step", x |-> 0, y |-> 0, a |-> it, b |-> fr]
  /\ nOps' = nOps + 1 /\ seen' = seen \cup {last'.op}
  /\ UNCHANGED << solver, size, dt, diff, visc, buf >>

\* One statement of step runs; nothing else can run until step returns.
StepStage ==
  /\ solver = "live" /\ pc # "idle"
  /\ buf' = RunStage(buf, size, pc, visc, diff, dt, iter, fadeRate)
  /\ trace' = Append(trace, pc)
  /\ pc' = NextStage(pc, fadeRate)
  /\ UNCHANGED << solver, size, dt, diff, visc, iter, fadeRate, pre, last, nOps, seen >>

Next ==
  \/ \E c \in Configs : Construct(c[1], c[2], c[3], c[4])
  \/ \E p \in Points, a \in Amounts : AddDensity(p[1], p[2], a)
  \/ \E p \in Points, d \in Deltas : AddVelocity(p[1], p[2], d[1], d[2])
  \/ \E p \in Points : Erase(p[1], p[2])
  \/ Reset
  \/ \E it \in 0 .. MaxIter, fr \in FadeRates : StepCall(it, fr)
  \/ StepStage

Spec == Init /\ [][Next]_vars

(***************************************************************************)
(* set_bnd on its own: a solver of size 1 .. MaxBndSize whose density      *)
(* buffer holds an arbitrary field (one of MaxSeed fields per size, with   *)
(* values -6 .. 6 in every cell, ghost cells and corners included), on     *)
(* which set_bnd(b, density) is called once with b = 0, 1 or 2.            *)
(***************************************************************************)
MaxBndSize == 3

MaxSeed == 12

FieldOf(N, seed) ==
  [k \in 0 .. arraySize(N) - 1 |->
     ((((k * k + 1) * seed + k) % 13) - 6) * One]

BndInit ==
  /\ solver = "live"
  /\ size \in 1 .. MaxBndSize
  /\ dt = Half /\ diff = 0 /\ visc = 0
  /\ \E seed \in 1 .. MaxSeed :
        buf = [n \in BufNames |->
                 IF n = "density" THEN FieldOf(size, seed) ELSE ZeroArray(size)]
  /\ pc = "idle"
  /\ iter = 0 /\ fadeRate = 0
  /\ trace = << >>
  /\ pre = buf
  /\ last = NoCall
  /\ nOps = 0 /\ seen = {}

SetBnd(b) ==
  /\ Idle /\ nOps = 0
  /\ pre' = buf
  /\ buf' = set_bnd(buf, size, b, "density")
  /\ last' = [op |-> "set_bnd", x |-> 0, y |-> 0, a |-> b, b |-> 0]
  /\ nOps' = nOps + 1 /\ seen' = seen \cup {last'.op}
  /\ UNCHANGED << solver, size, dt, diff, visc, pc, iter, fadeRate, trace >>

BndNext == \E b \in {0, 1, 2} : SetBnd(b)

SpecBnd == BndInit /\ [][BndNext]_vars

(***************************************************************************)
(* The projection inside step: a fresh solver of size 3 .. MaxSize with    *)
(* viscosity 0, one addVelocity impulse at an interior cell, then one      *)
(* step(iter, 0) with iter >= 1.  The first projection of that step is     *)
(* project(Vx0, Vy0, Vx, Vy, iter) on the impulse with its ghost cells set.*)
(***************************************************************************)
MaxSize == 5

Impulses == { << 10 * One, 0 >>, << 10 * One, -Half >> }

ProjNext ==
  \/ \E N \in 3 .. MaxSize : Construct(N, 0, 0, Half)
  \/ \E x, y \in 1 .. size, d \in Impulses :
        nOps = 0 /\ AddVelocity(x, y, d[1], d[2])
  \/ \E it \in 1 .. MaxIter : nOps = 1 /\ StepCall(it, 0)
  \/ StepStage

SpecProject == Init /\ [][ProjNext]_vars

(***************************************************************************)
(* Density diffusion inside step: a fresh solver of size 3 .. MaxSize with *)
(* viscosity 0 and a diffusion rate >= 0, one addDensity impulse of a      *)
(* positive amount at an interior cell, then one step(iter, 0) with        *)
(* iter >= 1.  The velocity stays zero, so the density stages are          *)
(* diffuse(0, s, density, diff, dt, iter) and an advection that copies s   *)
(* back.  The rates and amounts include small ones, where the rounding of  *)
(* the stored values is of the size of what diffusion moves.               *)
(***************************************************************************)
MassDiffusions == { 0, 2, Half }

MassAmounts == { 60, 100 * One }

MassNext ==
  \/ \E N \in 3 .. MaxSize, r \in MassDiffusions : Construct(N, r, 0, Half)
  \/ \E x, y \in 1 .. size, a \in MassAmounts :
        nOps = 0 /\ AddDensity(x, y, a)
  \/ \E it \in 1 .. MaxIter : nOps = 1 /\ StepCall(it, 0)
  \/ StepStage

SpecMass == Init /\ [][MassNext]_vars

(***************************************************************************)
(* Injections at the wall: solvers whose callers pass coordinates on or    *)
(* beyond the edge of the padded grid, so that addDensity and addVelocity  *)
(* write into ghost cells, between steps with any iteration count          *)
(* 0 .. MaxIter and any fade rate of FadeRates.                            *)
(***************************************************************************)
GhostConfigs == { << 3, Half, Half, Half >>, << 4, 0, 0, Half >> }

\* A left ghost cell, a bottom ghost cell (y clamped) and an interior cell.
GhostPoints == { << 0, 2 >>, << 2, 9 >>, << 2, 2 >> }

GhostNext ==
  \/ \E c \in GhostConfigs : Construct(c[1], c[2], c[3], c[4])
  \/ \E p \in GhostPoints, a \in Amounts : AddDensity(p[1], p[2], a)
  \/ \E p \in GhostPoints, d \in Deltas : AddVelocity(p[1], p[2], d[1], d[2])
  \/ \E it \in 0 .. MaxIter, fr \in FadeRates : StepCall(it, fr)
  \/ StepStage

SpecGhost == Init /\ [][GhostNext]_vars

(***************************************************************************)
(* Vocabulary of the properties                                            *)
(***************************************************************************)
\* clamp(v, lo, hi) as the written specification states it.
Clamp(v, lo, hi) == IF v < lo THEN lo ELSE IF v > hi THEN hi ELSE v

\* The offset of cell (i, j) of the padded grid, 0 <= i, j <= N + 1.
Cell(N, i, j) == i + (N + 2) * j

Interior(N) == 1 .. N

AllZero(f) == \A k \in DOMAIN f : f[k] = 0

NonNegative(f) == \A k \in DOMAIN f : f[k] >= 0

\* A step has returned and no call has been made since.
AfterStep == solver = "live" /\ pc = "idle" /\ last.op = "step"

\* Coordinates the totality property is checked on: -CoordFar .. CoordFar.
CoordFar == 7

(***************************************************************************)
(* C1.  For every grid size N >= 1 and all integers x, y, in range or not, *)
(* IX(x, y) is clamp(x, 0, N+1) + (N+2) * clamp(y, 0, N+1), an offset      *)
(* inside every allocated buffer.                                          *)
(***************************************************************************)
C1_IXTotal ==
  (solver = "live" /\ size >= 1) =>
    /\ \A n \in BufNames : DOMAIN buf[n] = 0 .. (size + 2) * (size + 2) - 1
    /\ \A x, y \in -CoordFar .. CoordFar :
         LET off == IX(size, x, y)
         IN  /\ off = Clamp(x, 0, size + 1) + (size + 2) * Clamp(y, 0, size + 1)
             /\ off >= 0
             /\ off <= (size + 2) * (size + 2) - 1

\* An injection at coordinates out of range on both axes has landed in the
\* corner cell (0, N+1).
C1_Witness ==
  /\ solver = "live" /\ size >= 1
  /\ last.op = "addDensity" /\ last.x < 0 /\ last.y > size + 1
  /\ buf["density"][Cell(size, 0, size + 1)] = last.a

(***************************************************************************)
(* C2.  Construction fails (and yields no solver) unless the resolution is *)
(* a positive integer and the diffusion rate, viscosity and time step are  *)
(* non-negative: every solver that exists has valid parameters.            *)
(***************************************************************************)
C2_ConstructionValidates ==
  solver = "live" => (size >= 1 /\ diff >= 0 /\ visc >= 0 /\ dt >= 0)

(***************************************************************************)
(* C3.  After reset, whatever calls came before, every cell of all six     *)
(* buffers is zero.                                                        *)
(***************************************************************************)
C3_ResetZeroFillsAll ==
  (solver = "live" /\ last.op = "reset") =>
    \A n \in BufNames : AllZero(buf[n])

(***************************************************************************)
(* C4.  Fixed point: on a solver that has only been stepped since it was   *)
(* constructed, density, Vx and Vy are zero in every cell after each step. *)
(***************************************************************************)
C4_FixedPoint ==
  (solver = "live" /\ pc = "idle" /\ seen = {"step"}) =>
    AllZero(buf["density"]) /\ AllZero(buf["Vx"]) /\ AllZero(buf["Vy"])

\* Three steps in a row on a fresh grid, the last one step(MaxIter, 0).
C4_Witness ==
  /\ AfterStep /\ size >= 3 /\ seen = {"step"} /\ nOps = 3
  /\ iter = MaxIter /\ fadeRate = 0
  /\ AllZero(buf["density"])

(***************************************************************************)
(* C5.  Every step runs its statements once each and in the order diffuse  *)
(* Vx, diffuse Vy, project, advect Vx, advect Vy, project, diffuse         *)
(* density, advect density, then the dissipation exactly when fadeRate > 0;*)
(* all of them have run when step returns, and no other call runs inside.  *)
(***************************************************************************)
C5_Order ==
  << "diffuseVx", "diffuseVy", "project1", "advectVx", "advectVy",
     "project2", "diffuseDensity", "advectDensity" >>

C5_Expected(fr) == IF fr > 0 THEN Append(C5_Order, "dissipate") ELSE C5_Order

C5_StagesInOrder ==
  (solver = "live" /\ "step" \in seen) =>
    LET e == C5_Expected(fadeRate)
        n == Len(trace)
    IN  /\ n <= Len(e)
        /\ trace = SubSeq(e, 1, n)
        /\ pc = "idle" => n = Len(e)
        /\ pc # "idle" => (last.op = "step" /\ n < Len(e) /\ pc = e[n + 1])

\* A step with a positive fade rate has returned after nine statements.
C5_Witness ==
  AfterStep /\ fadeRate > 0 /\ Len(trace) = 9 /\ trace[9] = "dissipate"

(***************************************************************************)
(* C6.  After set_bnd(b, x) on any field x, for all i, j in 1 .. N: the    *)
(* left and right ghost cells x[0,j], x[N+1,j] are -x[1,j], -x[N,j] when   *)
(* b = 1 and x[1,j], x[N,j] otherwise; the top and bottom ghost cells      *)
(* x[i,0], x[i,N+1] are -x[i,1], -x[i,N] when b = 2 and x[i,1], x[i,N]     *)
(* otherwise; each corner is the average of its two adjacent edge ghost    *)
(* cells; and no interior cell has changed.                                *)
(***************************************************************************)
C6_SetBnd ==
  (solver = "live" /\ last.op = "set_bnd") =>
    LET N == size
        b == last.a
        x == buf["density"]
        sx == IF b = 1 THEN -1 ELSE 1
        sy == IF b = 2 THEN -1 ELSE 1
    IN  /\ \A j \in Interior(N) :
              /\ x[Cell(N, 0, j)] = sx * x[Cell(N, 1, j)]
              /\ x[Cell(N, N + 1, j)] = sx * x[Cell(N, N, j)]
        /\ \A i \in Interior(N) :
              /\ x[Cell(N, i, 0)] = sy * x[Cell(N, i, 1)]
              /\ x[Cell(N, i, N + 1)] = sy * x[Cell(N, i, N)]
        /\ 2 * x[Cell(N, 0, 0)] = x[Cell(N, 1, 0)] + x[Cell(N, 0, 1)]
        /\ 2 * x[Cell(N, 0, N + 1)] = x[Cell(N, 1, N + 1)] + x[Cell(N, 0, N)]
        /\ 2 * x[Cell(N, N + 1, 0)] = x[Cell(N, N, 0)] + x[Cell(N, N + 1, 1)]
        /\ 2 * x[Cell(N, N + 1, N + 1)]
              = x[Cell(N, N, N + 1)] + x[Cell(N, N + 1, N)]
        /\ \A i, j \in Interior(N) :
              x[Cell(N, i, j)] = pre["density"][Cell(N, i, j)]

\* set_bnd(1, x) on a 3 x 3 grid has negated a non-zero interior value onto
\* the left wall and copied another onto the top wall.
C6_Witness ==
  /\ solver = "live" /\ last.op = "set_bnd" /\ last.a = 1 /\ size = 3
  /\ buf["density"][Cell(3, 1, 2)] # 0
  /\ buf["density"][Cell(3, 0, 2)] = -buf["density"][Cell(3, 1, 2)]
  /\ buf["density"][Cell(3, 2, 1)] # 0
  /\ buf["density"][Cell(3, 2, 0)] = buf["density"][Cell(3, 2, 1)]
  /\ buf["density"][Cell(3, 0, 0)] # pre["density"][Cell(3, 0, 0)]

(***************************************************************************)
(* C7.  Frame of the injections: for any integer coordinates, in range or  *)
(* not, addDensity(x, y, amount) adds amount to density at the clamped     *)
(* offset and changes nothing else; addVelocity(x, y, amountX, amountY)    *)
(* adds amountX to Vx and amountY to Vy at that offset and changes nothing *)
(* else.  The offset is a cell of the buffer, so the call does not fail.   *)
(***************************************************************************)
C7_Offset ==
  Clamp(last'.x, 0, size + 1) + (size + 2) * Clamp(last'.y, 0, size + 1)

C7_InjectionStep ==
  /\ (nOps' = nOps + 1 /\ last'.op = "addDensity") =>
        /\ C7_Offset \in DOMAIN buf["density"]
        /\ buf' = [buf EXCEPT !["density"][C7_Offset] = @ + last'.a]
        /\ \A n \in BufNames \ {"density"} : buf'[n] = buf[n]
        /\ \A k \in DOMAIN buf["density"] \ {C7_Offset} :
              buf'["density"][k] = buf["density"][k]
  /\ (nOps' = nOps + 1 /\ last'.op = "addVelocity") =>
        /\ C7_Offset \in DOMAIN buf["Vx"]
        /\ buf' = [buf EXCEPT !["Vx"][C7_Offset] = @ + last'.a,
                              !["Vy"][C7_Offset] = @ + last'.b]
        /\ \A n \in BufNames \ {"Vx", "Vy"} : buf'[n] = buf[n]
        /\ \A k \in DOMAIN buf["Vx"] \ {C7_Offset} :
              buf'["Vx"][k] = buf["Vx"][k] /\ buf'["Vy"][k] = buf["Vy"][k]

C7_InjectionFrame == [][C7_InjectionStep]_vars

\* An addVelocity at coordinates out of range on both axes has added its
\* amounts to the corner cell (0, N+1) of Vx and Vy.
C7_Witness ==
  /\ solver = "live" /\ size >= 1
  /\ last.op = "addVelocity" /\ last.x < 0 /\ last.y > size + 1
  /\ buf["Vx"][Cell(size, 0, size + 1)] = last.a
  /\ buf["Vy"][Cell(size, 0, size + 1)] = last.b
  /\ last.a # last.b

(***************************************************************************)
(* C8.  With diffusion rate 0, viscosity 0 and nothing but density ever    *)
(* injected (so the velocity is zero), a step with iter >= 1 and fadeRate  *)
(* 0 leaves every interior density cell at its value before the step, and  *)
(* every ghost cell on an edge equal to the interior cell next to it.  In  *)
(* particular, on a fresh grid with N = 4, addDensity(2, 2, 100) followed  *)
(* by one such step leaves 100 at (2, 2) and 0 in every other interior     *)
(* cell.                                                                   *)
(***************************************************************************)
C8_ZeroVelocityStepKeepsDensity ==
  (/\ AfterStep /\ size >= 1
   /\ diff = 0 /\ visc = 0
   /\ seen = {"addDensity", "step"}
   /\ iter >= 1 /\ fadeRate = 0) =>
    LET N == size
        d == buf["density"]
    IN  /\ \A i, j \in Interior(N) :
              d[Cell(N, i, j)] = pre["density"][Cell(N, i, j)]
        /\ \A i \in Interior(N) :
              /\ d[Cell(N, i, 0)] = d[Cell(N, i, 1)]
              /\ d[Cell(N, i, N + 1)] = d[Cell(N, i, N)]
              /\ d[Cell(N, 0, i)] = d[Cell(N, 1, i)]
              /\ d[Cell(N, N + 1, i)] = d[Cell(N, N, i)]
        /\ (N = 4 /\ pre["density"]
                       = [ZeroArray(4) EXCEPT ![Cell(4, 2, 2)] = 100 * One]) =>
              \A i, j \in Interior(4) :
                d[Cell(4, i, j)] = IF i = 2 /\ j = 2 THEN 100 * One ELSE 0

\* The example: N = 4, addDensity(2, 2, 100), step(1, 0).
C8_Witness ==
  /\ AfterStep /\ size = 4 /\ diff = 0 /\ visc = 0
  /\ seen = {"addDensity", "step"} /\ nOps = 2
  /\ iter = 1 /\ fadeRate = 0
  /\ pre["density"] = [ZeroArray(4) EXCEPT ![Cell(4, 2, 2)] = 100 * One]
  /\ buf["density"][Cell(4, 2, 2)] = 100 * One
  /\ buf["density"][Cell(4, 1, 1)] = 0

(***************************************************************************)
(* C9.  As stated: with valid parameters, non-negative density and a fade  *)
(* rate in (0, 1], no cell of density (ghost cells included) is larger     *)
(* after step than before it.                                              *)
(***************************************************************************)
C9_FadeNeverIncreases ==
  (/\ AfterStep /\ size >= 1 /\ diff >= 0 /\ visc >= 0
   /\ fadeRate > 0 /\ fadeRate <= One
   /\ NonNegative(pre["density"])) =>
    \A k \in DOMAIN buf["density"] : buf["density"][k] <= pre["density"][k]

(***************************************************************************)
(* C9, amended.  With diffusion rate 0, iter >= 1, a fade rate r in (0, 1],*)
(* non-negative density and all four velocity buffers zero when step is    *)
(* called, no interior cell of density is larger after the step than       *)
(* before it.                                                              *)
(***************************************************************************)
C9_FadeShrinksInterior ==
  (/\ AfterStep /\ size >= 1 /\ diff = 0 /\ visc >= 0
   /\ iter >= 1 /\ fadeRate > 0 /\ fadeRate <= One
   /\ NonNegative(pre["density"])
   /\ \A n \in {"Vx", "Vy", "Vx0", "Vy0"} : AllZero(pre[n])) =>
    \A i, j \in Interior(size) :
      buf["density"][Cell(size, i, j)] <= pre["density"][Cell(size, i, j)]

\* Smoke of 100 at (2, 2) has faded to 50 under fade rate 1/2 on a grid
\* whose viscosity is positive.
C9_Witness ==
  /\ AfterStep /\ size = 3 /\ diff = 0 /\ visc > 0
  /\ iter >= 1 /\ fadeRate = Half
  /\ \A n \in {"Vx", "Vy", "Vx0", "Vy0"} : AllZero(pre[n])
  /\ pre["density"][Cell(3, 2, 2)] = 100 * One
  /\ buf["density"][Cell(3, 2, 2)] = 50 * One

(***************************************************************************)
(* C10.  As stated: for a non-trivial velocity field (a single addVelocity *)
(* impulse at an interior cell) and iter >= 1, the mean over the interior  *)
(* cells of the absolute discrete divergence, computed with project's own  *)
(* central-difference formula, is smaller after project than before it.    *)
(* The mean is compared through the sum, the number of cells being fixed.  *)
(***************************************************************************)
\* The interior cells in loop order: the k-th is (CellI(N, k), CellJ(N, k)).
CellI(N, k) == 1 + ((k - 1) % N)

CellJ(N, k) == 1 + ((k - 1) \div N)

AbsDivAt(m, N, velocX, velocY, k) ==
  Abs(Divergence(m, N, velocX, velocY, CellI(N, k), CellJ(N, k)))

RECURSIVE SumTo(_, _)
SumTo(f, k) == IF k = 0 THEN 0 ELSE f[k] + SumTo(f, k - 1)

SumAbsDiv(m, N, velocX, velocY) ==
  SumTo([k \in 1 .. N * N |-> AbsDivAt(m, N, velocX, velocY, k)], N * N)

MaxAbsDiv(m, N, velocX, velocY) ==
  LET f == [k \in 1 .. N * N |-> AbsDivAt(m, N, velocX, velocY, k)]
  IN  CHOOSE v \in {f[k] : k \in 1 .. N * N} : \A k \in 1 .. N * N : f[k] <= v

\* The step about to run is its first projection, on a non-trivial field.
C10_AtProjection ==
  /\ solver = "live" /\ pc = "project1" /\ iter >= 1
  /\ SumAbsDiv(buf, size, "Vx0", "Vy0") > 0

C10_MeanDivergenceStep ==
  C10_AtProjection =>
    SumAbsDiv(buf', size, "Vx0", "Vy0") < SumAbsDiv(buf, size, "Vx0", "Vy0")

C10_MeanDivergenceReduced == [][C10_MeanDivergenceStep]_vars

(***************************************************************************)
(* C10, amended.  For a single addVelocity impulse at an interior cell of  *)
(* a fresh solver with viscosity 0 and iter >= 1, the largest absolute     *)
(* discrete divergence over the interior cells is smaller after the first  *)
(* projection of step than before it.                                      *)
(***************************************************************************)
C10_MaxDivergenceStep ==
  C10_AtProjection =>
    MaxAbsDiv(buf', size, "Vx0", "Vy0") < MaxAbsDiv(buf, size, "Vx0", "Vy0")

C10_MaxDivergenceReduced == [][C10_MaxDivergenceStep]_vars

\* The first projection of step(2, 0) has run on the impulse (10, 0) at
\* (2, 3) of a 5 x 5 grid: divergence remains, its largest absolute value
\* below the one before the projection, the sum of absolute values not.
C10_Witness ==
  /\ solver = "live" /\ pc = "advectVx" /\ last.op = "step"
  /\ size = 5 /\ visc = 0 /\ iter = 2
  /\ pre["Vx"] = [ZeroArray(5) EXCEPT ![Cell(5, 2, 3)] = 10 * One]
  /\ AllZero(pre["Vy"])
  /\ MaxAbsDiv(buf, 5, "Vx0", "Vy0") > 0
  /\ MaxAbsDiv(buf, 5, "Vx0", "Vy0") < MaxAbsDiv(pre, 5, "Vx", "Vy")
  /\ SumAbsDiv(buf, 5, "Vx0", "Vy0") >= SumAbsDiv(pre, 5, "Vx", "Vy")

(***************************************************************************)
(* C11.  Mass boundedness: on a fresh solver with a single addDensity      *)
(* impulse of a positive amount at one interior cell, diffusion rate >= 0  *)
(* and fade rate 0, the sum of density over the interior cells after the   *)
(* density diffuse and advect stages of a step with iter >= 1 is not       *)
(* greater than the sum over the interior cells before the step.           *)
(***************************************************************************)
SumInterior(f, N) == SumTo([k \in 1 .. N * N |-> f[Cell(N, CellI(N, k), CellJ(N, k))]], N * N)

\* A step(iter, 0), iter >= 1, has returned on a fresh solver that was given
\* one positive impulse at an interior cell and nothing else.
C11_AfterImpulseStep ==
  /\ AfterStep /\ size >= 1 /\ diff >= 0
  /\ nOps = 2 /\ seen = {"addDensity", "step"}
  /\ iter >= 1 /\ fadeRate = 0
  /\ \E i, j \in Interior(size) :
        /\ pre["density"][Cell(size, i, j)] > 0
        /\ pre["density"]
             = [ZeroArray(size) EXCEPT ![Cell(size, i, j)]
                                        = pre["density"][Cell(size, i, j)]]

C12_AdvectStages == { "advectVx", "advectVy", "advectDensity" }

C12_Written(st) ==
  CASE st = "advectVx" -> "Vx" [] st = "advectVy" -> "Vy"
    [] st = "advectDensity" -> "density"

C12_WorkBuffer(d) ==
  CASE d = "Vx" -> "Vx0" [] d = "Vy" -> "Vy0" [] d = "density" -> "s"

C12_Velocity(st) ==
  IF st = "advectDensity" THEN << "Vx", "Vy" >> ELSE << "Vx0", "Vy0" >>

\* The value an advection sweep over store m writes at (i, j) when nothing
\* it reads has been written by the sweep.
C12_Sampled(m, N, d0, velocX, velocY, step, i, j) ==
  The({ Interpolate(m, N, d0, x, y) :
          x \in { Backtrace(N, i, step * (N - 2), Get(m, velocX, N, i, j)) },
          y \in { Backtrace(N, j, step * (N - 2), Get(m, velocY, N, i, j)) } })

C12_AdvectStep ==
  (solver = "live" /\ pc \in C12_AdvectStages) =>
    LET d  == C12_Written(pc)
        d0 == C12_WorkBuffer(d)
        v  == C12_Velocity(pc)
    IN  /\ d \notin { d0, v[1], v[2] }
        /\ \A n \in BufNames \ {d} : buf'[n] = buf[n]
        /\ \A i, j \in Interior(size) :
              buf'[d][Cell(size, i, j)]
                = C12_Sampled(buf, size, d0, v[1], v[2], dt, i, j)

C12_AdvectBuffersDistinct == [][C12_AdvectStep]_vars

\* advect(1, Vx, Vx0, Vx0, Vy0, dt) has just run on a moving field: Vx0 is
\* not zero and the Vx written differs from it in an interior cell.
C12_Witness ==
  /\ solver = "live" /\ pc = "advectVy" /\ last.op = "step" /\ size >= 3
  /\ \E i, j \in Interior(size) :
        /\ buf["Vx0"][Cell(size, i, j)] # 0
        /\ buf["Vx"][Cell(size, i, j)] # buf["Vx0"][Cell(size, i, j)]
        /\ buf["Vx"][Cell(size, i, j)] # pre["Vx"][Cell(size, i, j)]

(***************************************************************************)
(* C13.  Ghost cells are derived state at every return of step: for any    *)
(* iter >= 0, any fade rate in [0, 1] and any injections before it, those  *)
(* written into ghost cells included, every ghost cell of density on an    *)
(* edge (corners apart) equals the interior density cell next to it, every *)
(* left and right ghost cell of Vx is the negation of the interior Vx cell *)
(* next to it, and every top and bottom ghost cell of Vy is the negation   *)
(* of the interior Vy cell next to it.                                     *)
(***************************************************************************)
C13_GhostsDerived ==
  (AfterStep /\ size >= 1 /\ iter >= 0 /\ fadeRate >= 0 /\ fadeRate <= One) =>
    LET N  == size
        d  == buf["density"]
        vx == buf["Vx"]
        vy == buf["Vy"]
    IN  \A k \in Interior(N) :
          /\ d[Cell(N, k, 0)] = d[Cell(N, k, 1)]
          /\ d[Cell(N, k, N + 1)] = d[Cell(N, k, N)]
          /\ d[Cell(N, 0, k)] = d[Cell(N, 1, k)]
          /\ d[Cell(N, N + 1, k)] = d[Cell(N, N, k)]
          /\ vx[Cell(N, 0, k)] = -vx[Cell(N, 1, k)]
          /\ vx[Cell(N, N + 1, k)] = -vx[Cell(N, N, k)]
          /\ vy[Cell(N, k, 0)] = -vy[Cell(N, k, 1)]
          /\ vy[Cell(N, k, N + 1)] = -vy[Cell(N, k, N)]

\* A step has returned whose entry state had a left ghost cell of Vx that an
\* injection had set apart from its interior neighbour, and the Vx it
\* leaves at the left wall is not zero.
C13_Witness ==
  /\ AfterStep /\ size >= 3
  /\ \E k \in Interior(size) :
        pre["Vx"][Cell(size, 0, k)] # -pre["Vx"][Cell(size, 1, k)]
  /\ \E k \in Interior(size) :
        /\ buf["Vx"][Cell(size, 0, k)] # 0
        /\ buf["Vx"][Cell(size, 0, k)] = -buf["Vx"][Cell(size, 1, k)]

(***************************************************************************)
(* C14.  An iteration count of 0 does not lose injected smoke: on a fresh  *)
(* solver with diffusion 0 and viscosity 0, after addDensity at an         *)
(* interior cell and no addVelocity, step(0, 0) leaves every interior      *)
(* density cell at its value before the step, as step(iter, 0) does for    *)
(* iter >= 1.                                                              *)
(***************************************************************************)
C14_ZeroIterKeepsDensity ==
  (/\ AfterStep /\ size >= 1
   /\ diff = 0 /\ visc = 0
   /\ nOps = 2 /\ seen = {"addDensity", "step"}
   /\ iter = 0 /\ fadeRate = 0
   /\ \E i, j \in Interior(size) : pre["density"][Cell(size, i, j)] > 0) =>
    \A i, j \in Interior(size) :
      buf["density"][Cell(size, i, j)] = pre["density"][Cell(size, i, j)]

=============================================================================
